---- MODULE Spec2Model ----
(***************************************************************************)
(* Model of the skill-tree application (src/app.py): the per-profile JSON  *)
(* files under DB_ROOT, the process-wide st.cache_data cache of            *)
(* _load_skill_tree, the session's active profile, and the handlers that   *)
(* one script run executes when a button is pressed.                       *)
(*                                                                         *)
(* Text (profile names, paths) is a sequence of one-character strings, so  *)
(* that strip, startswith, slicing and split are computed as Python does.  *)
(***************************************************************************)
EXTENDS Integers, Sequences, FiniteSets, TLC

VARIABLES
    files,                \* DB_ROOT: profile name -> content of skill_tree_<name>.json
    cache,                \* st.cache_data of _load_skill_tree: profile name -> cached return value
    active_profile,       \* st.session_state.active_profile
    next_active_profile,  \* st.session_state.next_active_profile (Unset when the key is absent)
    all_data,             \* app.py:319, skills loaded at the top of the latest script run
    defined_paths,        \* app.py:320, defined paths loaded at the top of the latest script run
    last                  \* the operation the latest step ran, its inputs and its outcome

vars == <<files, cache, active_profile, next_active_profile, all_data, defined_paths, last>>

----------------------------------------------------------------------------
(* Bounds of the model *)

\* longest skill list a handler may produce
MaxSkills == 2
\* longest defined-paths list a handler may produce
MaxPaths == 2
\* longest profile name drawn when checking is_valid_profilename
MaxNameLen == 3

----------------------------------------------------------------------------
(* Text helpers: Python str methods on sequences of characters *)

Whitespace == {" ", "\t"}

\* str.isspace(): at least one character and all of them whitespace
isspace(s) == Len(s) > 0 /\ \A i \in 1..Len(s) : s[i] \in Whitespace

RECURSIVE lstrip(_)
lstrip(s) == IF s # <<>> /\ Head(s) \in Whitespace THEN lstrip(Tail(s)) ELSE s

RECURSIVE rstrip(_)
rstrip(s) ==
    IF s # <<>> /\ s[Len(s)] \in Whitespace THEN rstrip(SubSeq(s, 1, Len(s) - 1)) ELSE s

\* str.strip()
strip(s) == rstrip(lstrip(s))

\* str.startswith(prefix)
startswith(s, prefix) ==
    /\ Len(prefix) <= Len(s)
    /\ SubSeq(s, 1, Len(prefix)) = prefix

\* s[n:]
slice_from(s, n) == SubSeq(s, n + 1, Len(s))

\* str.replace(old, new) for a one-character old
replace_char(s, old, new) == [i \in 1..Len(s) |-> IF s[i] = old THEN new ELSE s[i]]

\* the elements of a list, as a set
Range(s) == {s[i] : i \in 1..Len(s)}

\* list(set(xs)): the distinct elements in an order the hash seed decides
ListsOfSet(S) ==
    {q \in [1..Cardinality(S) -> S] : \A i, j \in 1..Cardinality(S) : q[i] = q[j] => i = j}

\* x in xs
InList(x, xs) == \E i \in 1..Len(xs) : xs[i] = x

\* list.remove(x): drops the first occurrence
RECURSIVE list_remove(_, _)
list_remove(xs, x) ==
    IF xs = <<>> THEN <<>>
    ELSE IF Head(xs) = x THEN Tail(xs)
    ELSE <<Head(xs)>> \o list_remove(Tail(xs), x)

\* list(dict.fromkeys(xs)): duplicates dropped, order of first appearance kept
RECURSIVE dict_fromkeys(_)
dict_fromkeys(xs) ==
    IF xs = <<>> THEN <<>>
    ELSE LET front == dict_fromkeys(SubSeq(xs, 1, Len(xs) - 1))
             x == xs[Len(xs)]
         IN  IF InList(x, front) THEN front ELSE Append(front, x)

\* xs.insert(j, xs.pop(i)) with 0-based i and j, both inside the list
move_item(xs, i, j) ==
    LET x == xs[i + 1]
        rest == SubSeq(xs, 1, i) \o SubSeq(xs, i + 2, Len(xs))
        at == IF j > Len(rest) THEN Len(rest) ELSE j
    IN  SubSeq(rest, 1, at) \o <<x>> \o SubSeq(rest, at + 1, Len(rest))

----------------------------------------------------------------------------
(* Profile names *)

Default == <<"d", "e", "f", "a", "u", "l", "t">>

\* the characters is_valid_profilename prohibits
InvalidChars == {"\\", "/", ":", "*", "?", "\"", "<", ">", "|"}

\* a validation that lets "." and ".." through
is_valid_profilename_no_dots(name) ==
    IF name = <<>> \/ isspace(name) THEN FALSE
    ELSE IF \E i \in 1..Len(name) : name[i] \in InvalidChars THEN FALSE
    ELSE TRUE

\* app.py:52 is_valid_profilename, the boolean of the returned pair
is_valid_profilename(name) ==
    IF name = <<>> \/ isspace(name) THEN FALSE
    ELSE IF \E i \in 1..Len(name) : name[i] \in InvalidChars THEN FALSE
    ELSE IF name \in {<<".">>, <<".", ".">>} THEN FALSE
    ELSE TRUE

----------------------------------------------------------------------------
(* Paths and skills *)

Sep == "."

P_ab == <<"a", ".", "b">>
P_abc == <<"a", ".", "b", ".", "c">>
P_a_bc == <<"a", ".", "b", "c">>
P_xy == <<"x", ".", "y">>

\* a skill record as the add form builds it (app.py:555) with the radios left at
\* their preselected options (app.py:547, 550) and the memo empty
Skill(name, path) ==
    [name |-> name, path |-> path, proficiency |-> 3, priority |-> 2, memo |-> ""]

\* str.split('.')
RECURSIVE split(_)
split(s) ==
    IF \A i \in 1..Len(s) : s[i] # Sep THEN <<s>>
    ELSE LET i == CHOOSE k \in 1..Len(s) : s[k] = Sep /\ \A j \in 1..(k - 1) : s[j] # Sep
         IN  <<SubSeq(s, 1, i - 1)>> \o split(SubSeq(s, i + 1, Len(s)))

\* ".".join(parts)
RECURSIVE join(_)
join(parts) ==
    IF parts = <<>> THEN <<>>
    ELSE IF Len(parts) = 1 THEN parts[1]
    ELSE parts[1] \o <<Sep>> \o join(Tail(parts))

----------------------------------------------------------------------------
(* File contents and the JSON documents in them *)

\* no file of that name
Absent == [kind |-> "absent", keys |-> {}, skills |-> <<>>, paths |-> <<>>]
\* a file json.load cannot parse
Corrupt == [kind |-> "corrupt", keys |-> {}, skills |-> <<>>, paths |-> <<>>]
\* a JSON object; keys are the ones among "skills" and "paths" it has
Doc(keys, skills, paths) ==
    [kind |-> "doc", keys |-> keys,
     skills |-> IF "skills" \in keys THEN skills ELSE <<>>,
     paths |-> IF "paths" \in keys THEN paths ELSE <<>>]
\* a file holding JSON that is an array of strings, not an object; keys are the
\* strings among "skills" and "paths" it has as elements (x in value is then true)
Array(keys) == [kind |-> "array", keys |-> keys, skills |-> <<>>, paths |-> <<>>]
\* a file holding JSON that is a number, true, false or null
Scalar == [kind |-> "scalar", keys |-> {}, skills |-> <<>>, paths |-> <<>>]
\* {"skills": [], "paths": []}
EmptyDoc == Doc({"skills", "paths"}, <<>>, <<>>)
\* no cache entry for that argument
NotCached == [kind |-> "none", keys |-> {}, skills |-> <<>>, paths |-> <<>>]

\* value.get raises AttributeError: the value json.load returned is not a dict
GetRaises(doc) == doc.kind # "doc"

\* dict.get(key, [])
Get(doc, key) ==
    IF key \notin doc.keys THEN <<>>
    ELSE IF key = "skills" THEN doc.skills ELSE doc.paths

\* doc[key] = value
SetKey(doc, key, value) ==
    IF key = "skills"
    THEN [doc EXCEPT !.keys = @ \cup {"skills"}, !.skills = value]
    ELSE [doc EXCEPT !.keys = @ \cup {"paths"}, !.paths = value]

\* the body of _load_skill_tree (app.py:120-127): what a cache miss computes;
\* whatever json.load returns is returned, an object or not
ReadSkillTree(content) ==
    IF content.kind = "absent" THEN EmptyDoc
    ELSE IF content.kind = "corrupt" THEN EmptyDoc
    ELSE content

\* @st.cache_data _load_skill_tree (app.py:118-127): the value returned
LoadSkillTree(f, c, profile) ==
    IF c[profile] # NotCached THEN c[profile] ELSE ReadSkillTree(f[profile])

\* @st.cache_data _load_skill_tree: the cache after the call
CacheAfterLoad(f, c, profile) ==
    IF c[profile] # NotCached THEN c
    ELSE [c EXCEPT ![profile] = ReadSkillTree(f[profile])]

\* _load_skill_tree.clear(): every entry of the function's cache is dropped
ClearedCache(c) == [p \in DOMAIN c |-> NotCached]

----------------------------------------------------------------------------
(* The data functions of app.py, on a world w = [files, cache, ...] *)

\* session_state has no next_active_profile key
Unset == <<"<unset>">>

\* get_profiles (app.py:98-116): the names listed
get_profiles(f) == {p \in DOMAIN f : f[p].kind # "absent"} \cup {Default}

\* get_profiles (app.py:109-113): the default file is written when it is missing
FilesAfterGetProfiles(f) ==
    IF f[Default].kind = "absent" THEN [f EXCEPT ![Default] = EmptyDoc] ELSE f

\* load_data (app.py:129)
load_data(w, profile) == Get(LoadSkillTree(w.files, w.cache, profile), "skills")

\* load_defined_paths (app.py:132)
load_defined_paths(w, profile) == Get(LoadSkillTree(w.files, w.cache, profile), "paths")

\* load_data and load_defined_paths (app.py:130, 133) raise AttributeError
load_raises(w, profile) == GetRaises(LoadSkillTree(w.files, w.cache, profile))

\* either loader leaves the value _load_skill_tree returned in the cache
AfterLoad(w, profile) == [w EXCEPT !.cache = CacheAfterLoad(w.files, w.cache, profile)]

\* save_all_data (app.py:135-140): the file is rewritten and the cache cleared
save_all_data(w, data, profile) ==
    [w EXCEPT !.files[profile] = data, !.cache = ClearedCache(w.cache)]

\* a skill name that json.load produces from the escape \ud800: a lone surrogate,
\* which the utf-8 file of save_all_data cannot encode
Surrogate == "\\ud800"

\* f.write raises UnicodeEncodeError in the middle of json.dump (app.py:139)
save_all_data_raises(data) == \E i \in 1..Len(data.skills) : data.skills[i].name = Surrogate

\* save_all_data (app.py:137-139) when json.dump raises: open(.., 'w') has emptied
\* the file, the text before the offending string is written when the file is
\* closed, and the cache is not cleared (app.py:140 is not reached)
save_all_data_partial(w, data, profile) == [w EXCEPT !.files[profile] = Corrupt]

\* save_data (app.py:142-145), reached through save_data_and_clear_cache (152-154)
save_data(w, data, profile) ==
    save_all_data(w, SetKey(LoadSkillTree(w.files, w.cache, profile), "skills", data), profile)

\* save_defined_paths (app.py:147-150); its caller save_defined_paths_and_clear_cache
\* (156-158) then evaluates the undefined name _load_defined_paths and raises NameError
save_defined_paths(w, paths, profile) ==
    save_all_data(w, SetKey(LoadSkillTree(w.files, w.cache, profile), "paths", paths), profile)

\* the top of a script run (app.py:297-322): the profiles are listed, a pending
\* switch of the active profile is applied, the active profile is loaded. When the
\* load raises, the run ends at app.py:319 and nothing below it is executed
Prelude(w) ==
    LET f1 == FilesAfterGetProfiles(w.files)
        act == IF w.next # Unset THEN w.next ELSE w.active
        w1 == [w EXCEPT !.files = f1, !.active = act, !.next = Unset]
        w2 == AfterLoad(w1, act)
    IN  IF load_raises(w2, act)
        THEN [w2 EXCEPT !.all_data = <<>>, !.defined_paths = <<>>, !.raised = TRUE]
        ELSE [w2 EXCEPT !.all_data = load_data(w2, act),
                        !.defined_paths = load_defined_paths(w2, act),
                        !.raised = FALSE]

\* the session and the storage as the variables hold them
World ==
    [files |-> files, cache |-> cache, active |-> active_profile,
     next |-> next_active_profile, all_data |-> all_data, defined_paths |-> defined_paths,
     raised |-> FALSE]

\* the variables take the world w
Becomes(w) ==
    /\ files' = w.files
    /\ cache' = w.cache
    /\ active_profile' = w.active
    /\ next_active_profile' = w.next
    /\ all_data' = w.all_data
    /\ defined_paths' = w.defined_paths

\* a handler ended in st.rerun(): the script runs again from the top
Rerun(w) == Prelude(w)

\* what a step records of itself: the button, the profile it was pressed on, how
\* the handler ended ("ok", "rejected": a message and no change, "error": a caught
\* exception, "exception": an uncaught one, "crash": the run ended before the
\* handler), whether the handler called st.rerun(), and the handler's inputs
Outcome(op, profile, result, rerun) ==
    [op |-> op, profile |-> profile, result |-> result, rerun |-> rerun,
     name |-> <<>>, old_path |-> <<>>, new_path |-> <<>>, recursive |-> FALSE, count |-> -1,
     raised |-> FALSE, doc |-> Absent]

\* a step ends: the handler's st.rerun() runs the script again; the step records
\* whether its last script run raised while loading the active profile
Finish(w, rerun, out) ==
    \E final \in {IF rerun THEN Rerun(w) ELSE w} :
      /\ Becomes(final)
      /\ last' = [out EXCEPT !.raised = final.raised]

\* the latest script run drew the widgets below app.py:322, so that there is a
\* button to press
Rendered == ~last.raised

----------------------------------------------------------------------------
(* Script runs that press no button *)

\* a run with no button pressed (a page switch, a toggle, a reload); a run that
\* ends at app.py:319, before it reaches any handler, is this step whatever was
\* pressed
View ==
    \E w \in {Prelude(World)} :
      Finish(w, FALSE, Outcome("view", w.active, IF w.raised THEN "crash" ELSE "ok", TRUE))

\* the profile selectbox (app.py:374-379) sets session_state.active_profile; the
\* script then runs from the top
SwitchProfile ==
    /\ Rendered
    /\ \E p \in get_profiles(files) :
         \E w \in {Prelude([World EXCEPT !.active = p])} :
           Finish(w, FALSE, Outcome("switch", w.active, IF w.raised THEN "crash" ELSE "ok", TRUE))

----------------------------------------------------------------------------
(* Profile handlers *)

\* a create that does not look for an existing file of that name
create_profile_overwriting(w, new_profile_name) ==
    LET sanitized_name == strip(new_profile_name)
        rejected == [w |-> w, result |-> "rejected", rerun |-> FALSE]
    IN  IF new_profile_name = <<>> THEN rejected
        ELSE IF is_valid_profilename(sanitized_name) /\ sanitized_name # Default
        THEN [w |-> [w EXCEPT !.files[sanitized_name] = EmptyDoc, !.next = sanitized_name],
              result |-> "ok", rerun |-> TRUE]
        ELSE rejected

\* the create handler (app.py:385-403) on the text new_profile_name
create_profile(w, new_profile_name) ==
    LET sanitized_name == strip(new_profile_name)
        rejected == [w |-> w, result |-> "rejected", rerun |-> FALSE]
    IN  IF new_profile_name = <<>> THEN rejected
        ELSE IF is_valid_profilename(sanitized_name) /\ sanitized_name # Default
        THEN IF w.files[sanitized_name].kind = "absent"
             THEN [w |-> [w EXCEPT !.files[sanitized_name] = EmptyDoc,
                                   !.next = sanitized_name],
                   result |-> "ok", rerun |-> TRUE]
             ELSE rejected
        ELSE rejected

\* the create button pressed with a text of Inputs in the name field
CreateProfile(Inputs) ==
    /\ Rendered
    /\ \E n \in Inputs :
         \E w \in {Prelude(World)} :
           /\ ~w.raised
           /\ \E r \in {create_profile(w, n)} :
                Finish(r.w, r.rerun,
                       [Outcome("create", w.active, r.result, r.rerun) EXCEPT !.name = n])

\* a rename that does not look for an existing file of the new name
rename_profile_overwriting(w, new_profile_name_rename, fs_fails) ==
    LET profile_to_rename == w.active
        sanitized_new_name == strip(new_profile_name_rename)
        rejected == [w |-> w, result |-> "rejected", rerun |-> FALSE]
    IN  IF profile_to_rename = Default THEN rejected
        ELSE IF ~is_valid_profilename(sanitized_new_name) THEN rejected
        ELSE IF sanitized_new_name = profile_to_rename THEN rejected
        ELSE IF fs_fails \/ w.files[profile_to_rename].kind = "absent"
        THEN [w |-> w, result |-> "error", rerun |-> FALSE]
        ELSE [w |-> [w EXCEPT !.files[sanitized_new_name] = w.files[profile_to_rename],
                              !.files[profile_to_rename] = Absent,
                              !.next = sanitized_new_name],
              result |-> "ok", rerun |-> TRUE]

\* the rename handler (app.py:436-459) on the text new_profile_name_rename;
\* fs_fails: os.rename raises
rename_profile(w, new_profile_name_rename, fs_fails) ==
    LET profile_to_rename == w.active
        sanitized_new_name == strip(new_profile_name_rename)
        rejected == [w |-> w, result |-> "rejected", rerun |-> FALSE]
    IN  IF profile_to_rename = Default THEN rejected
        ELSE IF ~is_valid_profilename(sanitized_new_name) THEN rejected
        ELSE IF sanitized_new_name = profile_to_rename THEN rejected
        ELSE IF w.files[sanitized_new_name].kind # "absent" THEN rejected
        ELSE IF fs_fails \/ w.files[profile_to_rename].kind = "absent"
        THEN [w |-> w, result |-> "error", rerun |-> FALSE]
        ELSE [w |-> [w EXCEPT !.files[sanitized_new_name] = w.files[profile_to_rename],
                              !.files[profile_to_rename] = Absent,
                              !.next = sanitized_new_name],
              result |-> "ok", rerun |-> TRUE]

\* the rename button pressed with a text of Inputs in the name field
RenameProfile(Inputs) ==
    /\ Rendered
    /\ \E n \in Inputs, fs_fails \in BOOLEAN :
         \E w \in {Prelude(World)} :
           /\ ~w.raised
           /\ \E r \in {rename_profile(w, n, fs_fails)} :
                Finish(r.w, r.rerun,
                       [Outcome("rename", w.active, r.result, r.rerun) EXCEPT !.name = n])

\* a delete that does not protect "default"
delete_profile_unprotected(w, fs_fails) ==
    LET profile_to_delete == w.active
        w1 == [w EXCEPT !.next = Default]
    IN  IF fs_fails \/ w.files[profile_to_delete].kind = "absent"
        THEN [w |-> w1, result |-> "error", rerun |-> FALSE]
        ELSE [w |-> [w1 EXCEPT !.files[profile_to_delete] = Absent],
              result |-> "ok", rerun |-> TRUE]

\* the delete handler (app.py:466-477); fs_fails: os.remove raises
delete_profile(w, fs_fails) ==
    LET profile_to_delete == w.active
    IN  IF profile_to_delete = Default
        THEN [w |-> w, result |-> "rejected", rerun |-> FALSE]
        ELSE LET w1 == [w EXCEPT !.next = Default]
             IN  IF fs_fails \/ w.files[profile_to_delete].kind = "absent"
                 THEN [w |-> w1, result |-> "error", rerun |-> FALSE]
                 ELSE [w |-> [w1 EXCEPT !.files[profile_to_delete] = Absent],
                       result |-> "ok", rerun |-> TRUE]

\* the delete button pressed
DeleteProfile ==
    /\ Rendered
    /\ \E fs_fails \in BOOLEAN :
         \E w \in {Prelude(World)} :
           /\ ~w.raised
           /\ \E r \in {delete_profile(w, fs_fails)} :
                Finish(r.w, r.rerun, Outcome("delete", w.active, r.result, r.rerun))

\* the import form (app.py:416-431) on the uploaded file's content, an object or
\* an array of strings
import_profile(w, uploaded) ==
    IF uploaded.kind = "corrupt" THEN [w |-> w, result |-> "rejected", rerun |-> FALSE]
    ELSE IF uploaded.kind = "scalar"
    THEN \* "skills" in new_data raises TypeError, which the handler does not catch
         [w |-> w, result |-> "exception", rerun |-> FALSE]
    ELSE IF "skills" \in uploaded.keys /\ "paths" \in uploaded.keys
    THEN IF save_all_data_raises(uploaded)
         THEN [w |-> save_all_data_partial(w, uploaded, w.active),
               result |-> "exception", rerun |-> FALSE]
         ELSE [w |-> save_all_data(w, uploaded, w.active), result |-> "ok", rerun |-> FALSE]
    ELSE [w |-> w, result |-> "rejected", rerun |-> FALSE]

\* the import form submitted with a file of Uploads
ImportProfile(Uploads) ==
    /\ Rendered
    /\ \E uploaded \in Uploads :
         \E w \in {Prelude(World)} :
           /\ ~w.raised
           /\ \E r \in {import_profile(w, uploaded)} :
                Finish(r.w, r.rerun,
                       [Outcome("import", w.active, r.result, r.rerun) EXCEPT !.doc = uploaded])

----------------------------------------------------------------------------
(* Paths of a profile *)

\* all_paths (app.py:321-322): the paths of the skills, then the defined paths,
\* duplicates dropped
AllPaths(w) ==
    LET existing_skill_paths ==
            SelectSeq([i \in 1..Len(w.all_data) |-> w.all_data[i].path], LAMBDA p : p # <<>>)
    IN  dict_fromkeys(existing_skill_paths \o w.defined_paths)

\* build_path_tree (app.py:232): the parts of one path; the filter tests the whole
\* path p, not the part
PathParts(p) ==
    IF strip(p) # <<>>
    THEN LET raw == split(p) IN [i \in 1..Len(raw) |-> strip(raw[i])]
    ELSE <<>>

\* build_path_tree (app.py:229-237): the nested mapping, as the set of its key
\* chains (a chain <<k1, .., kn>> is in the set when tree[k1]..[kn] exists)
build_path_tree(paths) ==
    UNION {{SubSeq(PathParts(paths[i]), 1, k) : k \in 1..Len(PathParts(paths[i]))} :
             i \in 1..Len(paths)}

\* the cascading selectboxes (app.py:510-533, 720-740): the user walks down the tree
\* choosing a non-empty key at each level and may stop at any level; the texts
\* ".".join(parts) that can result
SelectablePaths(paths) ==
    {join(c) : c \in {d \in build_path_tree(paths) : \A i \in 1..Len(d) : d[i] # <<>>}}
        \cup {<<>>}

\* the label of the "top level" choice of the parent radio (app.py:714)
TopLevel == <<"<top level>">>

----------------------------------------------------------------------------
(* Cascading update of a path (app.py:239-262) *)

\* the conditions of update_skill_paths (app.py:243, 245) and update_defined_paths
\* (app.py:254, 255): the path p is one the rename replaces
IsRenamed(p, old_path, recursive) ==
    \/ p = old_path
    \/ recursive /\ startswith(p, old_path \o <<Sep>>)

\* the equal/prefix substitution of update_skill_paths (app.py:243-247) and
\* update_defined_paths (app.py:254-256) on one path
RenamedPath(p, old_path, new_path, recursive) ==
    IF p = old_path THEN new_path
    ELSE IF recursive /\ startswith(p, old_path \o <<Sep>>)
    THEN new_path \o slice_from(p, Len(old_path))
    ELSE p

\* update_skill_paths (app.py:239-249): the world after it and the count returned
update_skill_paths(w, profile, old_path, new_path, recursive) ==
    LET w1 == AfterLoad(w, profile)
        skills == load_data(w, profile)
        updated == [i \in 1..Len(skills) |->
                      [skills[i] EXCEPT
                         !.path = RenamedPath(@, old_path, new_path, recursive)]]
        updated_count ==
            Cardinality({i \in 1..Len(skills) : IsRenamed(skills[i].path, old_path, recursive)})
    IN  [w |-> save_data(w1, updated, profile), count |-> updated_count]

\* update_defined_paths (app.py:251-257): the worlds it can leave, and whether the
\* call raised (the save it makes ends in a NameError, app.py:158)
update_defined_paths(w, profile, old_path, new_path, recursive) ==
    LET w1 == AfterLoad(w, profile)
        paths == load_defined_paths(w, profile)
        new_paths == [i \in 1..Len(paths) |->
                        RenamedPath(paths[i], old_path, new_path, recursive)]
        changed == \E i \in 1..Len(paths) : IsRenamed(paths[i], old_path, recursive)
    IN  IF changed
        THEN {[w |-> save_defined_paths(w1, q, profile), raised |-> TRUE] :
                q \in ListsOfSet(Range(new_paths))}
        ELSE {[w |-> w1, raised |-> FALSE]}

\* update_path_references (app.py:259-262): the outcomes; count is -1 when the call
\* raised instead of returning
update_path_references(w, profile, old_path, new_path, recursive) ==
    LET s == update_skill_paths(w, profile, old_path, new_path, recursive)
    IN  {[w |-> d.w, raised |-> d.raised, count |-> IF d.raised THEN -1 ELSE s.count] :
           d \in update_defined_paths(s.w, profile, old_path, new_path, recursive)}

----------------------------------------------------------------------------
(* Skill and path handlers *)

\* the add-skill button (app.py:552-560)
add_skill(w, name, selected_path) ==
    IF name # "" /\ selected_path # <<>>
    THEN [w |-> save_data(w, Append(w.all_data, Skill(name, selected_path)), w.active),
          result |-> "ok", rerun |-> TRUE]
    ELSE [w |-> w, result |-> "rejected", rerun |-> FALSE]

\* the add-skill button pressed with a name of Names typed and a path of Paths
\* selected in the cascade
AddSkill(Names, Paths) ==
    /\ Rendered
    /\ \E w \in {Prelude(World)} :
         /\ ~w.raised
         /\ Len(w.all_data) < MaxSkills
         /\ \E name \in Names, selected_path \in SelectablePaths(AllPaths(w)) \cap Paths :
              \E r \in {add_skill(w, name, selected_path)} :
                Finish(r.w, r.rerun, Outcome("add_skill", w.active, r.result, r.rerun))

\* the two add-path buttons (app.py:761-767 and 773-777) once the new path's text
\* is known: the outcomes
add_defined_path(w, new_path_def) ==
    LET current_paths == load_defined_paths(w, w.active)
    IN  IF ~InList(new_path_def, current_paths)
        THEN {[w |-> save_defined_paths(w, q, w.active),
               result |-> "exception", rerun |-> FALSE] :
                q \in ListsOfSet(Range(Append(current_paths, new_path_def)))}
        ELSE {[w |-> w, result |-> "rejected", rerun |-> FALSE]}

\* the add-node button (app.py:755-768) on the parent selected and the text new_part
add_path(w, selected_parent, new_part) ==
    LET part == replace_char(strip(new_part), Sep, "_")
        new_path_def == IF selected_parent # TopLevel
                        THEN selected_parent \o <<Sep>> \o part ELSE part
    IN  IF new_part = <<>> \/ part = <<>>
        THEN {[w |-> w, result |-> "rejected", rerun |-> FALSE]}
        ELSE add_defined_path(w, new_path_def)

\* the add-node button pressed with a parent of Parents selected and a text of
\* Parts typed
AddPath(Parents, Parts) ==
    /\ Rendered
    /\ \E w \in {Prelude(World)} :
         /\ ~w.raised
         /\ Len(w.defined_paths) < MaxPaths
         /\ \E selected_parent \in (SelectablePaths(AllPaths(w)) \cup {TopLevel}) \cap Parents,
               new_part \in Parts :
              \E r \in add_path(w, selected_parent, new_part) :
                Finish(r.w, r.rerun, Outcome("add_path", w.active, r.result, r.rerun))

\* the manual add button (app.py:771-778) on the text manual_path_def
manual_add_path(w, manual_path_def) ==
    IF manual_path_def = <<>>
    THEN {[w |-> w, result |-> "rejected", rerun |-> FALSE]}
    ELSE add_defined_path(w, manual_path_def)

\* the manual add button pressed with a text of Texts typed
ManualAddPath(Texts) ==
    /\ Rendered
    /\ \E w \in {Prelude(World)} :
         /\ ~w.raised
         /\ Len(w.defined_paths) < MaxPaths
         /\ \E manual_path_def \in Texts :
              \E r \in manual_add_path(w, manual_path_def) :
                Finish(r.w, r.rerun, Outcome("manual_add_path", w.active, r.result, r.rerun))

\* the delete-path button (app.py:798-803) on the path selected
delete_path(w, path_to_edit) ==
    LET current_paths == load_defined_paths(w, w.active)
    IN  IF InList(path_to_edit, current_paths)
        THEN [w |-> save_defined_paths(w, list_remove(current_paths, path_to_edit), w.active),
              result |-> "exception", rerun |-> FALSE]
        ELSE [w |-> w, result |-> "rejected", rerun |-> FALSE]

\* the delete-path button pressed with a path of the selectbox (app.py:785) selected
DeletePath ==
    /\ Rendered
    /\ \E w \in {Prelude(World)} :
         /\ ~w.raised
         /\ \E i \in 1..Len(AllPaths(w)) :
              \E r \in {delete_path(w, AllPaths(w)[i])} :
                Finish(r.w, r.rerun,
                       [Outcome("delete_path", w.active, r.result, r.rerun)
                          EXCEPT !.old_path = AllPaths(w)[i]])

\* the move buttons of the order action (app.py:808-825) on row i (0-based);
\* up: the move-up button, else the move-down button
order_path(w, i, up) ==
    LET paths_to_order == AllPaths(w)
        moved == IF up THEN move_item(paths_to_order, i, i - 1)
                 ELSE move_item(paths_to_order, i, i + 1)
    IN  [w |-> save_defined_paths(w, moved, w.active),
         result |-> "exception", rerun |-> FALSE]

\* a move button of the order action pressed; the button exists on the rows the
\* conditions of app.py:815 and 821 allow
OrderPath ==
    /\ Rendered
    /\ \E w \in {Prelude(World)} :
         /\ ~w.raised
         /\ \E i \in 0..(Len(AllPaths(w)) - 1), up \in BOOLEAN :
              /\ IF up THEN i > 0 ELSE i < Len(AllPaths(w)) - 1
              /\ \E r \in {order_path(w, i, up)} :
                   Finish(r.w, r.rerun,
                          [Outcome("order_path", w.active, r.result, r.rerun)
                             EXCEPT !.old_path = AllPaths(w)[i + 1]])

\* the rename-path button (app.py:790-794) on the path selected, the new text and
\* the recursive checkbox
rename_path(w, path_to_edit, new_path_name, recursive) ==
    IF new_path_name # <<>> /\ new_path_name # path_to_edit
    THEN {[w |-> u.w, result |-> IF u.raised THEN "exception" ELSE "ok",
           rerun |-> ~u.raised, count |-> u.count] :
            u \in update_path_references(w, w.active, path_to_edit, new_path_name, recursive)}
    ELSE {[w |-> w, result |-> "rejected", rerun |-> FALSE, count |-> -1]}

\* the rename-path button pressed with a path of the selectbox (app.py:785)
\* selected and a text of Texts typed
RenamePath(Texts) ==
    /\ Rendered
    /\ \E w \in {Prelude(World)} :
         /\ ~w.raised
         /\ \E i \in 1..Len(AllPaths(w)), new_path_name \in Texts, recursive \in BOOLEAN :
              \E r \in rename_path(w, AllPaths(w)[i], new_path_name, recursive) :
                Finish(r.w, r.rerun,
                       [Outcome("rename_path", w.active, r.result, r.rerun)
                          EXCEPT !.old_path = AllPaths(w)[i], !.new_path = new_path_name,
                                 !.recursive = recursive, !.count = r.count])

----------------------------------------------------------------------------
(* Spec: the profile store. Profiles are created, renamed, deleted, switched *)
(* and overwritten by imports; the files found at start may be damaged.     *)

\* texts typed into the profile-name inputs
NameInputs == {<<>>, <<" ", "a">>, <<"b">>, <<"a", "/", "b">>, Default}

\* the profile files the model follows: every name a handler can give a file
FileNames == {<<"a">>, <<"b">>, Default}

DocS == Doc({"skills", "paths"}, <<Skill("s", P_ab)>>, <<P_ab>>)
DocT == Doc({"skills", "paths"}, <<Skill("t", P_xy)>>, <<P_ab, P_ab>>)
DocNoPaths == Doc({"skills"}, <<Skill("s", P_ab)>>, <<>>)
DocNoSkills == Doc({"paths"}, <<>>, <<P_xy>>)
\* the JSON array ["skills", "paths"]
ArrayOfKeys == Array({"skills", "paths"})

\* the state after the first script run of a session that finds the files f and an
\* empty cache; q is the profile the URL names (app.py:306-311)
StartsWith(f, q) ==
    \E w \in {Prelude([files |-> f, cache |-> [p \in FileNames |-> NotCached],
                          active |-> q, next |-> Unset,
                          all_data |-> <<>>, defined_paths |-> <<>>, raised |-> FALSE])} :
        /\ files = w.files
        /\ cache = w.cache
        /\ active_profile = w.active
        /\ next_active_profile = w.next
        /\ all_data = w.all_data
        /\ defined_paths = w.defined_paths
        /\ last = [Outcome("start", q, IF w.raised THEN "crash" ELSE "ok", TRUE)
                     EXCEPT !.raised = w.raised]

Init ==
    \E fa \in {Absent, DocS}, fb \in {Absent, Corrupt, DocNoPaths, DocNoSkills, Array({})} :
      LET f == [p \in FileNames |->
                  IF p = <<"a">> THEN fa ELSE IF p = <<"b">> THEN fb ELSE Absent]
      IN  \E q \in get_profiles(f) : StartsWith(f, q)

Next ==
    \/ View
    \/ SwitchProfile
    \/ CreateProfile(NameInputs)
    \/ RenameProfile(NameInputs)
    \/ DeleteProfile
    \/ ImportProfile({Corrupt, DocNoSkills, DocT, ArrayOfKeys})

Spec == Init /\ [][Next]_vars

----------------------------------------------------------------------------
(* SpecPaths: skills and paths of one profile are edited; the profile can be    *)
(* deleted and created again in between.                                       *)

Doc3 ==
    Doc({"skills", "paths"},
        <<Skill("s", P_ab), Skill("t", P_abc), Skill("s", P_a_bc)>>, <<P_ab, P_abc>>)
Doc4 == Doc({"skills", "paths"}, <<Skill("t", P_a_bc)>>, <<P_ab, P_ab>>)

\* the profiles whose skills and paths the operator edits
EditedProfiles == {<<"a">>}

\* the profile that the next script run will show is one the operator edits
Editing == Prelude(World).active \in EditedProfiles

InitPaths ==
    \E fa \in {EmptyDoc, Doc3} :
      StartsWith([p \in FileNames |-> IF p = <<"a">> THEN fa ELSE Absent], <<"a">>)

NextPaths ==
    \/ View
    \/ CreateProfile({<<"a">>})
    \/ DeleteProfile
    \/ Editing /\ ImportProfile({Doc3, Doc4})
    \/ Editing /\ AddSkill({"", "s"}, {<<>>, P_ab})
    \/ Editing /\ AddPath({<<"a">>}, {<<>>, <<"b">>})
    \/ Editing /\ ManualAddPath({<<>>, P_ab})
    \/ Editing /\ DeletePath
    \/ Editing /\ OrderPath
    \/ Editing /\ RenamePath({P_xy})

SpecPaths == InitPaths /\ [][NextPaths]_vars

----------------------------------------------------------------------------
(* Claims about the profile store *)

\* the document stored under a profile name, as a load finds it on a cache miss
Stored(profile) == ReadSkillTree(files[profile])

\* C1: whenever a script run has loaded the active profile and nothing was written
\* since, the skills and defined paths it loaded are those of the document stored
\* under that profile name
C1_LoadReturnsStoredDocument ==
    (last.rerun /\ ~last.raised) =>
        /\ all_data = Get(Stored(active_profile), "skills")
        /\ defined_paths = Get(Stored(active_profile), "paths")

\* C10: loading the active profile raises no error; when the file of the loaded
\* profile is absent or unparsable the loaded skills and paths are empty, and when
\* the document it parses to lacks a key the loaded value of that key is empty
C10_LoadFailsSoft ==
    /\ ~last.raised
    /\ last.rerun =>
         LET content == files[active_profile]
         IN  /\ content.kind \in {"absent", "corrupt"} =>
                  all_data = <<>> /\ defined_paths = <<>>
             /\ "skills" \notin Stored(active_profile).keys => all_data = <<>>
             /\ "paths" \notin Stored(active_profile).keys => defined_paths = <<>>


\* C6: the profile "default" exists in every state and is listed; a delete or a
\* rename run while "default" is active is rejected and changes no file; no
\* create, rename or delete changes the file of "default"
C6_DefaultAlwaysExists ==
    /\ files[Default].kind # "absent"
    /\ [][/\ files'[Default].kind # "absent"
          /\ Default \in get_profiles(files')
          /\ last'.op \in {"create", "rename", "delete"} => files'[Default] = files[Default]
          /\ (last'.op \in {"rename", "delete"} /\ last'.profile = Default) =>
                 last'.result = "rejected" /\ files' = files]_vars

\* a delete or a rename of "default" was attempted and was rejected
C6_Witness ==
    /\ last.op \in {"rename", "delete"}
    /\ last.profile = Default
    /\ last.result = "rejected"
    /\ files[Default] # EmptyDoc

\* C8: a create fails when the name is invalid, names an existing profile or is
\* "default"; a failed create changes no file; a successful create adds exactly
\* the one profile, with the document {skills: [], paths: []}
C8_CreateProfile ==
    [][last'.op = "create" =>
        LET name == strip(last'.name)
            must_fail == \/ ~is_valid_profilename(name)
                         \/ name \in get_profiles(files)
                         \/ name = Default
        IN  /\ must_fail => last'.result # "ok"
            /\ last'.result # "ok" => files' = files
            /\ last'.result = "ok" =>
                 /\ name \notin get_profiles(files)
                 /\ get_profiles(files') = get_profiles(files) \cup {name}
                 /\ files' = [files EXCEPT ![name] = EmptyDoc]]_vars

\* a create succeeded while another profile held skills
C8_Witness ==
    /\ last.op = "create"
    /\ last.result = "ok"
    /\ files[strip(last.name)] = EmptyDoc
    /\ \E p \in DOMAIN files : files[p].skills # <<>>

\* C9: a rename fails when the old name is "default", when the new name is
\* invalid, exists already or equals the old one; a failed rename changes no file
\* and leaves the profile active; a successful rename unlists the old name, lists
\* the new one and stores under it the document that was stored under the old one
C9_RenameProfile ==
    [][last'.op = "rename" =>
        LET old == last'.profile
            new == strip(last'.name)
            must_fail == \/ old = Default
                         \/ ~is_valid_profilename(new)
                         \/ new \in get_profiles(files)
                         \/ new = old
        IN  /\ must_fail => last'.result # "ok"
            /\ last'.result # "ok" =>
                 files' = files /\ active_profile' = old /\ next_active_profile' = Unset
            /\ last'.result = "ok" =>
                 /\ old \notin get_profiles(files')
                 /\ new \in get_profiles(files')
                 /\ files'[new] = files[old]
                 /\ files' = [files EXCEPT ![new] = files[old], ![old] = Absent]]_vars

\* a rename succeeded and moved a document that holds skills
C9_Witness ==
    /\ last.op = "rename"
    /\ last.result = "ok"
    /\ files[last.profile].kind = "absent"
    /\ files[strip(last.name)].skills # <<>>


----------------------------------------------------------------------------
(* SpecNames: is_valid_profilename applied to every short text *)

\* the characters names are drawn from
NameAlphabet == InvalidChars \cup Whitespace \cup {".", "a", "-"}

RECURSIVE TextsUpTo(_, _)
\* the texts of at most n characters of Alphabet
TextsUpTo(Alphabet, n) ==
    IF n = 0 THEN {<<>>}
    ELSE LET shorter == TextsUpTo(Alphabet, n - 1)
         IN  shorter \cup {Append(t, c) : t \in shorter, c \in Alphabet}

N_blank == <<" ", " ">>
N_a_slash_b == <<"a", "/", "b">>
N_work == <<"w", "o", "r", "k">>
N_2024_plan == <<"2", "0", "2", "4", "-", "p", "l", "a", "n">>

NameTexts == TextsUpTo(NameAlphabet, MaxNameLen) \cup {N_a_slash_b, N_work, N_2024_plan}

InitNames ==
    /\ \E w \in {Prelude([files |-> [p \in FileNames |-> Absent],
                          cache |-> [p \in FileNames |-> NotCached],
                          active |-> Default, next |-> Unset,
                          all_data |-> <<>>, defined_paths |-> <<>>, raised |-> FALSE])} :
         /\ files = w.files
         /\ cache = w.cache
         /\ active_profile = w.active
         /\ next_active_profile = w.next
         /\ all_data = w.all_data
         /\ defined_paths = w.defined_paths
    /\ \E n \in NameTexts : last = [Outcome("typed", Default, "none", FALSE) EXCEPT !.name = n]

\* is_valid_profilename is called on the text typed
ValidateName ==
    /\ last.op = "typed"
    /\ last' = [last EXCEPT !.op = "validate",
                            !.result = IF is_valid_profilename(last.name)
                                       THEN "ok" ELSE "rejected"]
    /\ UNCHANGED <<files, cache, active_profile, next_active_profile, all_data, defined_paths>>

NextNames == ValidateName

SpecNames == InitNames /\ [][NextNames]_vars

\* C7: a name is accepted exactly when it is non-empty, not made only of
\* whitespace, holds none of \ / : * ? " < > | and is neither "." nor ".."; the
\* spec's examples are rejected and accepted as it says
C7_NameValidation ==
    last.op = "validate" =>
        LET name == last.name
            acceptable ==
                /\ Len(name) > 0
                /\ \E i \in 1..Len(name) : name[i] \notin Whitespace
                /\ \A i \in 1..Len(name) :
                     name[i] \notin {"\\", "/", ":", "*", "?", "\"", "<", ">", "|"}
                /\ name # <<".">>
                /\ name # <<".", ".">>
        IN  /\ (last.result = "ok") <=> acceptable
            /\ name \in {<<>>, N_blank, N_a_slash_b, <<".">>, <<".", ".">>} =>
                 last.result = "rejected"
            /\ name \in {N_work, N_2024_plan} => last.result = "ok"

\* ".." was validated and rejected
C7_Witness ==
    /\ last.op = "validate"
    /\ last.name = <<".", ".">>
    /\ last.result = "rejected"


----------------------------------------------------------------------------
(* Claims about the cascading path update *)

\* the latest step called update_path_references
PathUpdateRan == last.op = "rename_path" /\ last.result \in {"ok", "exception"}

\* the path the claims expect in place of p
ExpectedPath(p, old_path, new_path, recursive) ==
    IF p = old_path THEN new_path
    ELSE IF recursive /\ Len(p) > Len(old_path)
                      /\ SubSeq(p, 1, Len(old_path) + 1) = Append(old_path, ".")
    THEN new_path \o SubSeq(p, Len(old_path) + 1, Len(p))
    ELSE p

\* C2: after updatePathReferences the stored skill sequence is the sequence stored
\* before, same length and order, each path replaced by the equal/prefix rule
\* (dot boundary, exact matches only when not recursive), no other field changed
C2_SkillPathsSubstituted ==
    [][PathUpdateRan' =>
        LET before == Get(Stored(last'.profile), "skills")
            after == Get(ReadSkillTree(files'[last'.profile]), "skills")
        IN  /\ Len(after) = Len(before)
            /\ \A i \in 1..Len(before) :
                 after[i] = [before[i] EXCEPT !.path =
                     ExpectedPath(before[i].path, last'.old_path, last'.new_path,
                                  last'.recursive)]]_vars

\* C3: updatePathReferences returns the number of skills whose path it replaced,
\* also when defined paths matched the old path
C3_ReturnsSkillCount ==
    [][PathUpdateRan' =>
        LET before == Get(Stored(last'.profile), "skills")
        IN  last'.count =
              Cardinality({i \in 1..Len(before) :
                  ExpectedPath(before[i].path, last'.old_path, last'.new_path,
                               last'.recursive) # before[i].path})]_vars

\* C4: no operation ends in an unhandled error
C4_NoUnhandledError == last.result \notin {"exception", "crash"} /\ ~last.raised

\* C5: after updatePathReferences the stored defined paths are exactly the
\* substituted paths of the list stored before, each once
C5_DefinedPathsSubstitutedOnce ==
    [][PathUpdateRan' =>
        LET before == Get(Stored(last'.profile), "paths")
            after == Get(ReadSkillTree(files'[last'.profile]), "paths")
        IN  /\ Range(after) =
                 {ExpectedPath(before[i], last'.old_path, last'.new_path, last'.recursive) :
                    i \in 1..Len(before)}
            /\ \A i, j \in 1..Len(after) : after[i] = after[j] => i = j]_vars

----------------------------------------------------------------------------
(* SpecImport: documents are imported into profiles and saved back as loaded;  *)
(* the profile "a" can be deleted and created again in between.               *)

\* an uploaded document one of whose skill names is written "\ud800"
DocBad == Doc({"skills", "paths"}, <<Skill("t", P_xy), Skill(Surrogate, P_ab)>>, <<P_xy>>)

\* the files uploaded to the import form
ImportUploads == {Corrupt, Scalar, Array({}), ArrayOfKeys, DocNoSkills, DocNoPaths, DocT, DocBad}

\* saveProfile(name, loadProfile(name)): save_all_data on what _load_skill_tree
\* returns for the active profile (as save_data does, app.py:143-145, with the
\* data left as loaded)
SaveLoaded ==
    /\ Rendered
    /\ \E w \in {Prelude(World)} :
         /\ ~w.raised
         /\ \E loaded \in {LoadSkillTree(w.files, w.cache, w.active)} :
              Finish(save_all_data(w, loaded, w.active), FALSE,
                     [Outcome("save_loaded", w.active, "ok", FALSE) EXCEPT !.doc = loaded])

InitImport ==
    \E fa \in {Absent, DocS} :
      LET f == [p \in FileNames |-> IF p = <<"a">> THEN fa ELSE Absent]
      IN  \E q \in get_profiles(f) : StartsWith(f, q)

NextImport ==
    \/ View
    \/ SwitchProfile
    \/ CreateProfile({<<"a">>})
    \/ DeleteProfile
    \/ ImportProfile(ImportUploads)
    \/ SaveLoaded

SpecImport == InitImport /\ [][NextImport]_vars

----------------------------------------------------------------------------
(* Claims about saving and importing *)

\* C11: a save leaves under the profile either the complete document stored
\* before or the complete new document, also when the save is cut short
C11_SaveIsAtomic ==
    [][last'.op \in {"import", "save_loaded"} =>
         files'[last'.profile] \in {files[last'.profile], last'.doc}]_vars

\* C12: loading a profile right after a document with both keys was saved under it
\* returns that document, and saving what a load returned leaves the stored
\* document as it was
C12_RoundTrip ==
    [][/\ (/\ last'.op = "import"
           /\ last'.doc.kind = "doc"
           /\ last'.doc.keys = {"skills", "paths"}) =>
              LoadSkillTree(files', cache', last'.profile) = last'.doc
       /\ last'.op = "save_loaded" =>
              ReadSkillTree(files'[last'.profile]) = ReadSkillTree(files[last'.profile])]_vars

----------------------------------------------------------------------------
(* SpecUrgency: calculate_urgency applied to every short skill list *)

\* the longest skill list ranked
MaxRanked == 3

\* dict.get(key, default)
get(s, key, default) == IF key \in DOMAIN s THEN s[key] ELSE default

\* dict.items() as frozenset(s.items()) holds it (app.py:170): the set of the
\* (key, value) pairs
items(s) == {<<k, s[k]>> : k \in DOMAIN s}

\* dict(frozenset) (app.py:162): the mapping of the pairs
dict(pairs) == [k \in {p[1] : p \in pairs} |-> (CHOOSE p \in pairs : p[1] = k)[2]]

\* int() of a proficiency or priority (app.py:164-165); the values ranked here are
\* integers, which int() returns as they are
int(v) == v

\* the loop body of _calculate_urgency (app.py:164-166): the skill with its
\* urgency_score set
scored_as_product(s) ==
    LET prio == int(get(s, "priority", 1))
        prof == int(get(s, "proficiency", 0))
    IN  [k \in DOMAIN s \cup {"urgency_score"} |->
           IF k = "urgency_score" THEN prio * prof ELSE s[k]]

scored(s) ==
    LET prio == int(get(s, "priority", 1))
        prof == int(get(s, "proficiency", 0))
    IN  [k \in DOMAIN s \cup {"urgency_score"} |->
           IF k = "urgency_score" THEN prio * (5 - prof) ELSE s[k]]

\* sorted(skills, key=lambda x: x['urgency_score'], reverse=True) (app.py:167):
\* a stable sort, so skills of equal score keep the order they came in
RECURSIVE sorted_by_urgency_ascending(_)
sorted_by_urgency_ascending(skills) ==
    IF skills = <<>> THEN <<>>
    ELSE LET x == Head(skills)
             rest == sorted_by_urgency_ascending(Tail(skills))
             k == Cardinality({i \in 1..Len(rest) : rest[i].urgency_score < x.urgency_score})
         IN  SubSeq(rest, 1, k) \o <<x>> \o SubSeq(rest, k + 1, Len(rest))

RECURSIVE sorted_by_urgency(_)
sorted_by_urgency(skills) ==
    IF skills = <<>> THEN <<>>
    ELSE LET x == Head(skills)
             rest == sorted_by_urgency(Tail(skills))
             k == Cardinality({i \in 1..Len(rest) : rest[i].urgency_score > x.urgency_score})
         IN  SubSeq(rest, 1, k) \o <<x>> \o SubSeq(rest, k + 1, Len(rest))

\* the body of _calculate_urgency (app.py:162-167)
calculate_urgency_body(skills_tuple) ==
    sorted_by_urgency([i \in 1..Len(skills_tuple) |-> scored(dict(skills_tuple[i]))])

\* @st.cache_data on _calculate_urgency (app.py:160): memo is the set of the
\* (argument, result) entries kept; a call with an argument that has an entry
\* returns the entry's result, any other call runs the body and keeps its result
calculate_urgency_cached(memo, skills_tuple) ==
    IF \E e \in memo : e.key = skills_tuple
    THEN [memo |-> memo, value |-> (CHOOSE e \in memo : e.key = skills_tuple).value]
    ELSE LET value == calculate_urgency_body(skills_tuple)
         IN  [memo |-> memo \cup {[key |-> skills_tuple, value |-> value]}, value |-> value]

\* calculate_urgency (app.py:169-170)
calculate_urgency(memo, skills) ==
    calculate_urgency_cached(memo, [i \in 1..Len(skills) |-> items(skills[i])])

\* the skills ranked: every proficiency of the radio (app.py:547) with every
\* priority of the radio (app.py:550), and a skill that has neither key
RankedSkills ==
    {[name |-> "s", path |-> <<>>, proficiency |-> p, priority |-> r, memo |-> ""] :
       p \in 0..5, r \in 1..3}
      \cup {[name |-> "s", path |-> <<>>, memo |-> ""]}

InitUrgency ==
    /\ \E w \in {Prelude([files |-> [p \in FileNames |-> Absent],
                          cache |-> [p \in FileNames |-> NotCached],
                          active |-> Default, next |-> Unset,
                          all_data |-> <<>>, defined_paths |-> <<>>, raised |-> FALSE])} :
         /\ files = w.files
         /\ cache = w.cache
         /\ active_profile = w.active
         /\ next_active_profile = w.next
         /\ all_data = w.all_data
         /\ defined_paths = w.defined_paths
    /\ \E n \in 0..MaxRanked : \E skills \in [1..n -> RankedSkills] :
         last = [op |-> "skills", skills |-> skills, ranked |-> <<>>, again |-> <<>>]

\* the home view ranks the skills (app.py:564), and another run ranks the same
\* skills again with the cache the first call left
CalculateUrgency ==
    /\ last.op = "skills"
    /\ \E first \in {calculate_urgency({}, last.skills)} :
         \E second \in {calculate_urgency(first.memo, last.skills)} :
           last' = [last EXCEPT !.op = "rank", !.ranked = first.value, !.again = second.value]
    /\ UNCHANGED <<files, cache, active_profile, next_active_profile, all_data, defined_paths>>

NextUrgency == CalculateUrgency

SpecUrgency == InitUrgency /\ [][NextUrgency]_vars

\* a ranked skill as it was given: the record without its urgency_score
Unscored(s) == [k \in DOMAIN s \ {"urgency_score"} |-> s[k]]

\* C13: every skill with proficiency p in 0..5 and priority r in 1..3 is given
\* the urgency score r*(5-p); the score is 0 exactly when p = 5 and it is 15
\* exactly when p = 0 and r = 3
C13_UrgencyScore ==
    last.op = "rank" =>
        \A i \in 1..Len(last.skills) :
          LET s == last.skills[i]
          IN  {"proficiency", "priority"} \subseteq DOMAIN s =>
                LET p == s.proficiency
                    r == s.priority
                    theirs == {j \in 1..Len(last.ranked) : Unscored(last.ranked[j]) = s}
                IN  /\ theirs # {}
                    /\ \A j \in theirs :
                         LET score == last.ranked[j].urgency_score
                         IN  /\ score = r * (5 - p)
                             /\ (score = 0) <=> (p = 5)
                             /\ (score = 15) <=> (p = 0 /\ r = 3)
                             /\ score <= 15

\* a list with a skill of score 15 and a skill of score 0 was ranked
C13_Witness ==
    /\ last.op = "rank"
    /\ \E i, j \in 1..Len(last.ranked) :
         /\ last.ranked[i].urgency_score = 15
         /\ last.ranked[i].proficiency = 0
         /\ last.ranked[j].urgency_score = 0
         /\ last.ranked[j].proficiency = 5

\* C14: the ranking holds the skills given, each as often as it was given, in
\* non-increasing order of urgency score, and ranking the same skills a second
\* time gives the same order
C14_RankIsSortedPermutation ==
    last.op = "rank" =>
        /\ Len(last.ranked) = Len(last.skills)
        /\ \A i \in 1..Len(last.skills) :
             Cardinality({j \in 1..Len(last.ranked) : Unscored(last.ranked[j]) = last.skills[i]})
                 = Cardinality({j \in 1..Len(last.skills) : last.skills[j] = last.skills[i]})
        /\ \A i \in 1..(Len(last.ranked) - 1) :
             last.ranked[i].urgency_score >= last.ranked[i + 1].urgency_score
        /\ last.again = last.ranked

\* three skills were ranked, two of them the same skill, and the ranking is not
\* the order they were given in
C14_Witness ==
    /\ last.op = "rank"
    /\ Len(last.skills) = 3
    /\ last.skills[1] = last.skills[3]
    /\ last.ranked[1].urgency_score > last.ranked[2].urgency_score
    /\ [i \in 1..3 |-> Unscored(last.ranked[i])] # last.skills

----------------------------------------------------------------------------
(* SpecTree: build_path_tree applied to every short list of short paths *)

\* the longest path text and the longest path list given to build_path_tree
MaxPathLen == 3
MaxTreePaths == 2

T_A_B == <<"A", ".", "B">>
T_A_C == <<"A", ".", "C">>
T_D == <<"D">>

\* the path texts: every short text of a letter, the separator and a blank
PathTexts == TextsUpTo({"A", Sep, " "}, MaxPathLen)

\* the path lists: every short list of the texts, and the list A.B, A.C, D
PathLists ==
    UNION {[1..n -> PathTexts] : n \in 0..MaxTreePaths} \cup {<<T_A_B, T_A_C, T_D>>}

InitTree ==
    /\ \E w \in {Prelude([files |-> [p \in FileNames |-> Absent],
                          cache |-> [p \in FileNames |-> NotCached],
                          active |-> Default, next |-> Unset,
                          all_data |-> <<>>, defined_paths |-> <<>>, raised |-> FALSE])} :
         /\ files = w.files
         /\ cache = w.cache
         /\ active_profile = w.active
         /\ next_active_profile = w.next
         /\ all_data = w.all_data
         /\ defined_paths = w.defined_paths
    /\ \E paths \in PathLists : last = [op |-> "paths", paths |-> paths, tree |-> {}]

\* the add form and the path manager build the tree of all_paths (app.py:499, 705)
BuildPathTree ==
    /\ last.op = "paths"
    /\ last' = [last EXCEPT !.op = "tree", !.tree = build_path_tree(last.paths)]
    /\ UNCHANGED <<files, cache, active_profile, next_active_profile, all_data, defined_paths>>

NextTree == BuildPathTree

SpecTree == InitTree /\ [][NextTree]_vars

\* C15: no key of the tree, at any depth, is the empty text, and the tree of
\* A.B, A.C, D is {A: {B: {}, C: {}}, D: {}}
C15_NoEmptyKey ==
    last.op = "tree" =>
        /\ \A chain \in last.tree : \A i \in 1..Len(chain) : chain[i] # <<>>
        /\ last.paths = <<T_A_B, T_A_C, T_D>> =>
               last.tree = {<<<<"A">>>>, <<<<"A">>, <<"B">>>>, <<<<"A">>, <<"C">>>>, <<<<"D">>>>}

----------------------------------------------------------------------------
(* SpecDot: generate_tree_dot applied to short lists of skills and paths *)

\* the longest skill list and the longest path list given to generate_tree_dot
MaxDotSkills == 2
MaxDotPaths == 2

\* the characters of the texts that generate_tree_dot sorts, in the order of
\* their code points; "<brain>" stands for the one character U+1F9E0 and
\* "<page_title>" for the text t("page_title"), which is only ever compared
\* with itself
CodeOrder ==
    <<" ", "\"", "-", ".", ">", "_", "a", "b", "c", "i", "k", "l", "s", "<brain>", "<page_title>">>

\* ord(c), up to an order-preserving renumbering
ord(c) == CHOOSE i \in 1..Len(CodeOrder) : CodeOrder[i] = c

\* str < str
RECURSIVE text_less(_, _)
text_less(a, b) ==
    IF a = <<>> THEN b # <<>>
    ELSE IF b = <<>> THEN FALSE
    ELSE IF a[1] = b[1] THEN text_less(Tail(a), Tail(b))
    ELSE ord(a[1]) < ord(b[1])

\* sorted(list(texts)) of a set of texts
RECURSIVE sorted_texts(_)
sorted_texts(texts) ==
    IF texts = {} THEN <<>>
    ELSE LET least == CHOOSE x \in texts : \A y \in texts \ {x} : text_less(x, y)
         IN  <<least>> \o sorted_texts(texts \ {least})

\* sep.join(texts)
RECURSIVE join_with(_, _)
join_with(texts, sep) ==
    IF texts = <<>> THEN <<>>
    ELSE IF Len(texts) = 1 THEN texts[1]
    ELSE texts[1] \o sep \o join_with(Tail(texts), sep)

\* root_node_label (app.py:180)
root_node_label == <<"<brain>", " ", "<page_title>">>

\* f'"{x}"'
quoted(x) == <<"\"">> \o x \o <<"\"">>

\* f'"{parent}" -> "{child}"' (app.py:188, 212)
edge_text(parent, child) == quoted(parent) \o <<" ", "-", ">", " ">> \o quoted(child)

\* [p.strip() for p in path.split('.') if p.strip()] (app.py:185, 195)
dot_parts(path) ==
    SelectSeq([i \in 1..Len(split(path)) |-> strip(split(path)[i])], LAMBDA p : p # <<>>)

\* levels[level].add(node) on the defaultdict(set) (app.py:179): levels is the
\* sequence of the (level, nodes) items in the order the levels were first added
levels_add(levels, level, node) ==
    IF \E i \in 1..Len(levels) : levels[i].level = level
    THEN [i \in 1..Len(levels) |->
            IF levels[i].level = level
            THEN [levels[i] EXCEPT !.nodes = @ \cup {node}] ELSE levels[i]]
    ELSE Append(levels, [level |-> level, nodes |-> {node}])

\* the loop over the parts of one path (app.py:187-190), from part i on
RECURSIVE dot_add_parts(_, _, _)
dot_add_parts(g, parts, i) ==
    IF i > Len(parts) THEN g
    ELSE dot_add_parts(
           [g EXCEPT !.edges = @ \cup {edge_text(IF i = 1 THEN root_node_label ELSE parts[i - 1],
                                                 parts[i])},
                     !.levels = levels_add(@, i, quoted(parts[i]))],
           parts, i + 1)

\* the loop over all_paths (app.py:184-190)
RECURSIVE dot_add_paths(_, _)
dot_add_paths(g, all_paths) ==
    IF all_paths = <<>> THEN g
    ELSE dot_add_paths(dot_add_parts(g, dot_parts(Head(all_paths)), 1), Tail(all_paths))

\* leaf_id (app.py:210)
leaf_id(s) == <<"s", "k", "i", "l", "l", "_">> \o s.name \o <<"_">> \o get(s, "path", <<>>)

\* the parent of a skill's leaf (app.py:196-198)
leaf_parent(s) ==
    LET parts == dot_parts(get(s, "path", <<>>))
    IN  IF parts # <<>> THEN parts[Len(parts)] ELSE root_node_label

\* the fill colour of a leaf (app.py:205-208)
leaf_color(prof) ==
    IF prof = 0 THEN "#e0e0e0"
    ELSE IF prof = 1 THEN "#ffcccc"
    ELSE IF prof <= 3 THEN "#fff4cc"
    ELSE "#ccffcc"

\* the node line of a skill (app.py:200-211); '*' * prio is held as one item
leaf_line(s) ==
    LET prof == int(get(s, "proficiency", 0))
        prio == int(get(s, "priority", 0))
        display_name == s.name \o <<" ">> \o [i \in 1..prio |-> "*"]
    IN  <<"  \"">> \o leaf_id(s) \o <<"\" [label=\"">> \o display_name
          \o <<"\", shape=note, fillcolor=\"", leaf_color(prof), "\"];">>

\* the loop over the skills (app.py:193-213)
RECURSIVE dot_add_leaves(_, _)
dot_add_leaves(g, skills) ==
    IF skills = <<>> THEN g
    ELSE LET s == Head(skills)
         IN  dot_add_leaves(
               [g EXCEPT !.dot = Append(@, leaf_line(s)),
                         !.edges = @ \cup {edge_text(leaf_parent(s), leaf_id(s))},
                         !.levels = levels_add(@, Len(dot_parts(get(s, "path", <<>>))) + 1,
                                               quoted(leaf_id(s)))],
               Tail(skills))

\* the lines of generate_tree_dot (app.py:174-225), each line a text
dot_lines(skills, all_paths, show_leaves) ==
    LET header == <<<<"digraph G {">>, <<"  rankdir=LR;">>,
                    <<"  node [fontname=\"sans-serif\", shape=box, style=\"filled,rounded\", fillcolor=\"#f0f2f6\"];">>>>
        start == [dot |-> header, edges |-> {},
                  levels |-> <<[level |-> 0, nodes |-> {quoted(root_node_label)}]>>]
        pathed == dot_add_paths(start, all_paths)
        g == IF show_leaves THEN dot_add_leaves(pathed, skills) ELSE pathed
        edges == sorted_texts(g.edges)
        ranked == SelectSeq(g.levels, LAMBDA l : Cardinality(l.nodes) > 1)
    IN  g.dot
          \o [i \in 1..Len(edges) |-> <<"  ">> \o edges[i] \o <<";">>]
          \o [i \in 1..Len(ranked) |->
                <<"  { rank=same; ">> \o join_with(sorted_texts(ranked[i].nodes), <<";", " ">>)
                  \o <<" }">>]
          \o <<<<"}">>>>

\* generate_tree_dot (app.py:172-226): "\n".join(dot)
generate_tree_dot(skills, all_paths, show_leaves) ==
    join_with(dot_lines(skills, all_paths, show_leaves), <<"\n">>)

D_a == <<"a">>
D_a_b == <<"a", "_", "b">>
D_c == <<"c">>
D_b_c == <<"b", "_", "c">>
D_bc == <<"b", ".", "c">>

\* the skills drawn
DotSkills ==
    {[name |-> n, path |-> p, proficiency |-> 3, priority |-> r, memo |-> ""] :
       n \in {D_a, D_a_b}, p \in {<<>>, D_c, D_b_c, D_bc}, r \in {1, 2}}

\* the paths drawn
DotPaths == {D_c, D_b_c, D_bc, <<"c", ".", " ">>}

InitDot ==
    /\ \E w \in {Prelude([files |-> [p \in FileNames |-> Absent],
                          cache |-> [p \in FileNames |-> NotCached],
                          active |-> Default, next |-> Unset,
                          all_data |-> <<>>, defined_paths |-> <<>>, raised |-> FALSE])} :
         /\ files = w.files
         /\ cache = w.cache
         /\ active_profile = w.active
         /\ next_active_profile = w.next
         /\ all_data = w.all_data
         /\ defined_paths = w.defined_paths
    /\ \E n \in 0..MaxDotSkills, m \in 0..MaxDotPaths :
         \E skills \in [1..n -> DotSkills], paths \in [1..m -> DotPaths], show_leaves \in BOOLEAN :
           last = [op |-> "graph", skills |-> skills, paths |-> paths,
                   show_leaves |-> show_leaves, lines |-> <<>>, dot |-> <<>>]

\* the tree tabs draw the graph (app.py:681, 691)
GenerateTreeDot ==
    /\ last.op = "graph"
    /\ last' = [last EXCEPT !.op = "dot",
                            !.lines = dot_lines(last.skills, last.paths, last.show_leaves),
                            !.dot = generate_tree_dot(last.skills, last.paths, last.show_leaves)]
    /\ UNCHANGED <<files, cache, active_profile, next_active_profile, all_data, defined_paths>>

NextDot == GenerateTreeDot

SpecDot == InitDot /\ [][NextDot]_vars

\* the node lines and the edge lines of the output: a node line starts with the
\* two blanks and the quote of its identifier, an edge line with the two blanks
NodeLines == SelectSeq(last.lines, LAMBDA l : l[1] = "  \"")
EdgeLines == SelectSeq(last.lines, LAMBDA l : l[1] = "  ")

\* the orders a list can be given in
Orders(xs) ==
    {[i \in 1..Len(xs) |-> xs[f[i]]] :
       f \in {g \in [1..Len(xs) -> 1..Len(xs)] : \A i, j \in 1..Len(xs) : g[i] = g[j] => i = j}}

\* C16: no node line and no edge line occurs twice, the edge lines are in sorted
\* order, and the output is the same in whatever order the skills and the paths
\* are given
C16_DeduplicatedAndSorted ==
    last.op = "dot" =>
        /\ \A i, j \in 1..Len(NodeLines) : NodeLines[i] = NodeLines[j] => i = j
        /\ \A i, j \in 1..Len(EdgeLines) : EdgeLines[i] = EdgeLines[j] => i = j
        /\ \A i \in 1..(Len(EdgeLines) - 1) : text_less(EdgeLines[i], EdgeLines[i + 1])
        /\ \A skills \in Orders(last.skills), paths \in Orders(last.paths) :
             generate_tree_dot(skills, paths, last.show_leaves) = last.dot

\* the leaf node lines carry this identifier
HasLeafNode(id) == \E i \in 1..Len(NodeLines) : SubSeq(NodeLines[i], 2, Len(id) + 2) = id \o <<"\" [label=\"">>

\* C17: with show-leaves set, two skills that differ in name or in path have
\* different leaf identifiers, and every skill has a leaf node and an edge to
\* it from its deepest path segment, or from the root when its path is empty
C17_LeafIdentifiersUnique ==
    (last.op = "dot" /\ last.show_leaves) =>
        /\ \A i, j \in 1..Len(last.skills) :
             (last.skills[i].name # last.skills[j].name \/ last.skills[i].path # last.skills[j].path)
                 => leaf_id(last.skills[i]) # leaf_id(last.skills[j])
        /\ \A i \in 1..Len(last.skills) :
             LET s == last.skills[i]
             IN  /\ HasLeafNode(leaf_id(s))
                 /\ \E k \in 1..Len(EdgeLines) :
                      EdgeLines[k] = <<"  ">> \o edge_text(leaf_parent(s), leaf_id(s)) \o <<";">>

\* C18: import of a document with both keys overwrites the active profile, so
\* that loading it afterwards returns the imported skills and paths; import of
\* anything else (a document lacking a key, a value that is not a keyed
\* document, a file that does not parse) is rejected and leaves the stored
\* profile unchanged
C18_ImportValidates ==
    [][last'.op = "import" =>
         LET uploaded == last'.doc
             profile == last'.profile
             after == [files |-> files', cache |-> cache']
         IN  IF uploaded.kind = "doc" /\ {"skills", "paths"} \subseteq uploaded.keys
             THEN /\ last'.result = "ok"
                  /\ ~load_raises(after, profile)
                  /\ load_data(after, profile) = uploaded.skills
                  /\ load_defined_paths(after, profile) = uploaded.paths
             ELSE /\ last'.result = "rejected"
                  /\ files'[profile] = files[profile]]_vars

----------------------------------------------------------------------------
(* Claims about deleting a defined path *)

\* C19: deleting a defined path leaves the stored skill sequence as it was and
\* takes exactly one entry, an entry of that path, out of the stored defined
\* paths, every other entry staying in its place
C19_DeletePathRemovesOnlyThePlaceholder ==
    [][(last'.op = "delete_path" /\ last'.result # "rejected") =>
        LET before == Stored(last'.profile)
            after == ReadSkillTree(files'[last'.profile])
        IN  /\ Get(after, "skills") = Get(before, "skills")
            /\ \E k \in 1..Len(Get(before, "paths")) :
                 /\ Get(before, "paths")[k] = last'.old_path
                 /\ Get(after, "paths") =
                      SubSeq(Get(before, "paths"), 1, k - 1)
                        \o SubSeq(Get(before, "paths"), k + 1, Len(Get(before, "paths")))]_vars

----------------------------------------------------------------------------
(* SpecMove: the skills of one profile are moved up and down in the list tab *)

\* the longest skill list the profile starts with
MaxMoved == 3

\* str.replace(old, new) for a non-empty old: the matches are taken from the left
RECURSIVE replace(_, _, _)
replace(s, old, new) ==
    IF Len(s) < Len(old) THEN s
    ELSE IF SubSeq(s, 1, Len(old)) = old
    THEN new \o replace(SubSeq(s, Len(old) + 1, Len(s)), old, new)
    ELSE <<Head(s)>> \o replace(Tail(s), old, new)

\* the text put between the parts of a displayed path (app.py:579); "<arrow>"
\* stands for the one character U+27A4
Arrow == <<" ", "<arrow>", " ">>

\* the path column of the table (app.py:579)
displayed_path(s) == replace(s.path, <<Sep>>, Arrow)

\* the search loop of the move buttons (app.py:650-655, 664-669): the 0-based
\* index of the first skill with the row's name and path, or -1
original_skill_index(current_data, row_name, row_path) ==
    LET path_str == replace(row_path, Arrow, <<Sep>>)
        hits == {i \in 1..Len(current_data) :
                   /\ current_data[i].name = row_name
                   /\ get(current_data[i], "path", <<>>) = path_str}
    IN  IF hits = {} THEN -1 ELSE (CHOOSE i \in hits : \A j \in hits : i <= j) - 1

\* the move-up button of a row (app.py:648-659)
move_skill_up(w, row_name, row_path) ==
    LET current_data == w.all_data
        idx == original_skill_index(current_data, row_name, row_path)
    IN  IF idx > 0
        THEN [w |-> save_data(w, move_item(current_data, idx, idx - 1), w.active),
              result |-> "ok", rerun |-> TRUE]
        ELSE [w |-> w, result |-> "ok", rerun |-> FALSE]

\* the move-down button of a row (app.py:662-673); list.pop(-1) takes the last
\* element
move_skill_down(w, row_name, row_path) ==
    LET current_data == w.all_data
        idx == original_skill_index(current_data, row_name, row_path)
    IN  IF idx < Len(current_data) - 1
        THEN [w |-> save_data(w, move_item(current_data,
                                           IF idx < 0 THEN Len(current_data) + idx ELSE idx,
                                           idx + 1),
                              w.active),
              result |-> "ok", rerun |-> TRUE]
        ELSE [w |-> w, result |-> "ok", rerun |-> FALSE]

\* the rows of the table (app.py:563-578): one for each skill ranked
TableRows(w) == calculate_urgency({}, load_data(w, w.active)).value

\* the move-up button of one of the rows is pressed
MoveSkillUp ==
    /\ Rendered
    /\ \E w \in {Prelude(World)} :
         /\ ~w.raised
         /\ \E rows \in {TableRows(w)} : \E i \in 1..Len(rows) :
              \E r \in {move_skill_up(w, rows[i].name, displayed_path(rows[i]))} :
                Finish(r.w, r.rerun,
                       [skill |-> Unscored(rows[i])]
                         @@ Outcome("move_up", w.active, r.result, r.rerun))

\* the move-down button of one of the rows is pressed
MoveSkillDown ==
    /\ Rendered
    /\ \E w \in {Prelude(World)} :
         /\ ~w.raised
         /\ \E rows \in {TableRows(w)} : \E i \in 1..Len(rows) :
              \E r \in {move_skill_down(w, rows[i].name, displayed_path(rows[i]))} :
                Finish(r.w, r.rerun,
                       [skill |-> Unscored(rows[i])]
                         @@ Outcome("move_down", w.active, r.result, r.rerun))

\* the skills the profile starts with: two skills of one path, a third with the
\* name and path of the first, and a skill whose path holds the text between
\* displayed parts
MovedSkills ==
    {Skill("s", P_ab), Skill("t", P_ab), [Skill("s", P_ab) EXCEPT !.proficiency = 1],
     Skill("u", <<"a">> \o Arrow \o <<"b">>)}

InitMove ==
    \E n \in 0..MaxMoved : \E skills \in [1..n -> MovedSkills] :
      StartsWith([p \in FileNames |->
                    IF p = <<"a">> THEN Doc({"skills", "paths"}, skills, <<>>) ELSE Absent],
                 <<"a">>)

NextMove == View \/ MoveSkillUp \/ MoveSkillDown

SpecMove == InitMove /\ [][NextMove]_vars

\* the list with the elements at positions i and j exchanged
Swapped(xs, i, j) ==
    [k \in 1..Len(xs) |-> IF k = i THEN xs[j] ELSE IF k = j THEN xs[i] ELSE xs[k]]

\* C20: move-up (move-down) exchanges the skill of the row with its predecessor
\* (successor) in the stored skill sequence and changes no other position; when
\* the skill is first (last), or no stored skill has the name and path the row
\* displays, the stored sequence is unchanged
C20_MoveSwapsNeighbours ==
    [][last'.op \in {"move_up", "move_down"} =>
        LET before == Get(Stored(last'.profile), "skills")
            after == Get(ReadSkillTree(files'[last'.profile]), "skills")
            step == IF last'.op = "move_up" THEN -1 ELSE 1
            matched == \E i \in 1..Len(before) :
                          /\ before[i].name = last'.skill.name
                          /\ displayed_path(before[i]) = displayed_path(last'.skill)
                          /\ before[i].path = replace(displayed_path(last'.skill), Arrow, <<Sep>>)
        IN  IF ~matched THEN after = before
            ELSE \E i \in 1..Len(before) :
                   /\ before[i] = last'.skill
                   /\ after = IF i + step \in 1..Len(before)
                              THEN Swapped(before, i, i + step) ELSE before]_vars

----------------------------------------------------------------------------
(* Claims about filesystem errors on rename and delete *)

\* C21: when os.remove or os.rename fails the attempt changes nothing: the
\* files, and with them the set of profiles and their documents, the active
\* profile and the pending switch are as the script run found them, so the next
\* run shows the same profile
C21_FailedRemoveOrRenameChangesNothing ==
    [][(last'.op \in {"delete", "rename"} /\ last'.result = "error") =>
        LET before == Prelude(World)
        IN  /\ files' = before.files
            /\ get_profiles(files') = get_profiles(before.files)
            /\ active_profile' = before.active
            /\ next_active_profile' = before.next
            /\ Prelude([before EXCEPT !.files = files', !.cache = cache',
                                      !.active = active_profile',
                                      !.next = next_active_profile']).active
                 = before.active]_vars

----------------------------------------------------------------------------
(* Claims about the path-order action *)

\* C22: a move of the path-order action leaves the stored skills as they were
\* and the set of the stored defined paths as it was: no path that only a skill
\* has becomes a defined path
C22_OrderKeepsTheDefinedPaths ==
    [][last'.op = "order_path" =>
        LET before == Stored(last'.profile)
            after == ReadSkillTree(files'[last'.profile])
        IN  /\ Get(after, "skills") = Get(before, "skills")
            /\ Range(Get(after, "paths")) = Range(Get(before, "paths"))]_vars

====
